---- MODULE Spec2Model ----
(***************************************************************************)
(* getLanguageStats (src/main.go:76-139): list a user's repositories,      *)
(* fetch each repository's language breakdown, merge the byte counts,      *)
(* normalise them to percentages and rank them.  The HTTP handler of the   *)
(* server-only variant (src/unnamed/part_000:95-164) runs the same         *)
(* pipeline inline, statement for statement.                               *)
(***************************************************************************)
EXTENDS Integers, Sequences, FiniteSets, TLC

VARIABLES pc, listingStatus, repos, idx, outcomes, calls, languageStats,
          result, err

vars == <<pc, listingStatus, repos, idx, outcomes, calls, languageStats,
          result, err>>

\* ------------------------------------------------------------------ bounds

\* Longest repository listing a run of the pipeline receives.
MaxRepos == 2

\* Largest byte count in a language breakdown served to a pipeline run.
MaxRepoBytes == 2

\* Byte counts 0..MaxBytes (and the two of NormByteVals) in the merged maps
\* the normaliser is run on directly.
MaxBytes == 7

\* ------------------------------------------------------------- float64

\* A positive float64 is [a, b, c, e]: the 53-bit significand
\* a*2^36 + b*2^18 + c (2^16 <= a < 2^17, b and c < 2^18) times 2^e.
Limb == 2^18

FZero == [a |-> 0, b |-> 0, c |-> 0, e |-> 0]

\* The next float64 above x (rounding a significand up, with the carries).
FNextUp(x) ==
    IF x.c + 1 < Limb THEN [x EXCEPT !.c = x.c + 1]
    ELSE IF x.b + 1 < Limb THEN [x EXCEPT !.c = 0, !.b = x.b + 1]
    ELSE IF x.a + 1 < 2^17 THEN [x EXCEPT !.c = 0, !.b = 0, !.a = x.a + 1]
    ELSE [a |-> 2^16, b |-> 0, c |-> 0, e |-> x.e + 1]

\* Round to nearest, ties to even: lost is the part cut off, half its midpoint.
FRoundEven(x, lost, half) ==
    IF lost > half \/ (lost = half /\ x.c % 2 = 1) THEN FNextUp(x) ELSE x

\* The least j with n * 2^j >= d, for 1 <= n <= d.
RECURSIVE FShift(_, _)
FShift(n, d) == IF n >= d THEN 0 ELSE 1 + FShift(2 * n, d)

\* float64(n) / float64(d) for integers 0 <= n <= d, 0 < d < 2^13: the
\* quotient's first 53 bits by long division, then rounded on the remainder.
FDiv(n, d) ==
    IF n = 0 THEN FZero
    ELSE LET j  == FShift(n, d)
             r0 == (n * 2^j) - d
             r1 == (r0 * 2^16) % d
             r2 == (r1 * Limb) % d
             r3 == (r2 * Limb) % d
             q  == [a |-> 2^16 + ((r0 * 2^16) \div d),
                    b |-> (r1 * Limb) \div d,
                    c |-> (r2 * Limb) \div d,
                    e |-> 0 - 52 - j]
         IN  FRoundEven(q, 2 * r3, d)

\* x * 100 in float64: the exact 59- or 60-bit product cut back to 53 bits.
FMul100(x) ==
    IF x = FZero THEN FZero
    ELSE LET c1 == x.c * 100
             b1 == (x.b * 100) + (c1 \div Limb)
             t  == (x.a * 100) + (b1 \div Limb)
             cc == c1 % Limb
             bb == b1 % Limb
             s  == IF t >= 2^23 THEN 7 ELSE 6
             q  == [a |-> t \div 2^s,
                    b |-> ((t % 2^s) * 2^(18 - s)) + (bb \div 2^s),
                    c |-> ((bb % 2^s) * 2^(18 - s)) + (cc \div 2^s),
                    e |-> x.e + s]
         IN  FRoundEven(q, cc % 2^s, 2^(s - 1))

\* math.Round(x) for 0 <= x < 2^14: the integer part plus the half bit
\* (halves round away from zero).
FRound(x) ==
    IF x = FZero \/ 0 - x.e >= 54 THEN 0
    ELSE LET n == 0 - x.e
         IN  (x.a \div 2^(n - 36)) + ((x.a \div 2^(n - 37)) % 2)

\* Percent of one record, held in hundredths: k stands for the float64
\* nearest k/100, and k |-> float64(k/100) is strictly increasing, so the
\* order of two Percent values is the order of their k.
PercentOfIntDiv(bytes, totalBytes) == ((bytes \div totalBytes) * 100) * 100

\* percent := (float64(bytes) / float64(totalBytes)) * 100, then
\* math.Round(percent * 100).  Each intermediate float64 is bound as the one
\* element of a set, which computes it once.
PercentOf(bytes, totalBytes) ==
    LET quotient == {FDiv(bytes, totalBytes)}
        percent  == {FMul100(q) : q \in quotient}
        scaled   == {FMul100(p) : p \in percent}
    IN  CHOOSE k \in {FRound(x) : x \in scaled} : TRUE

\* ------------------------------------------------------- upstream data

\* Language names in name order.
LangOrder == <<"Go", "Python", "Rust">>

Langs == {LangOrder[i] : i \in 1..Len(LangOrder)}

\* Languages of the breakdowns served to a pipeline run.
RepoLangs == {"Go", "Rust"}

\* A map[string]int64: a function from the keys present to their counts.
EmptyMap == [l \in {} |-> 0]

MapsOver(keys, vals) == UNION {[d -> vals] : d \in SUBSET keys}

\* The ways fetchGitHubData returns an error: the request cannot be built,
\* client.Do fails (transport), the body cannot be read, the status is not
\* 200; the client's 15 s timeout is the action of its own below.
FetchErrorKinds == {"createRequest", "requestFailed", "readBody", "apiError"}

\* One element of the listing: only languages_url is decoded; a record
\* without the field decodes to the empty string.
Repo == [LanguagesURL : {"", "url"}]

RECURSIVE SeqsUpTo(_, _)
SeqsUpTo(S, n) ==
    IF n = 0 THEN {<<>>}
    ELSE LET shorter == SeqsUpTo(S, n - 1)
         IN  shorter \cup {Append(q, x) : q \in {r \in shorter : Len(r) = n - 1}, x \in S}

\* A 200 body of the listing: json.Unmarshal either decodes it (ok) or
\* returns an error, having filled repos with what it could decode.
ListingBodies == [ok : BOOLEAN, repos : SeqsUpTo(Repo, MaxRepos)]

\* A 200 body of a language breakdown: decoded (ok), or an error with the
\* entries decoded before and around the offending one left in langData.
LangBodies ==
    [ok : {TRUE}, data : MapsOver(RepoLangs, 0..MaxRepoBytes)]
        \cup [ok : {FALSE}, data : {EmptyMap, [l \in {"Go"} |-> 1]}]

\* ------------------------------------------------------ getLanguageStats

ListingParseIgnored(body) == FALSE

\* json.Unmarshal(reposBody, &repos) returned an error.
ListingParseFails(body) == ~body.ok

NoRepositoriesUnchecked(rs) == FALSE

\* len(repos) == 0
NoRepositories(rs) == Len(rs) = 0

ContributionNoContinue(body) == body.data

\* What a 200 body adds to languageStats: langData when it decoded, nothing
\* when json.Unmarshal failed (the loop continues before the merge).
Contribution(body) == IF body.ok THEN body.data ELSE EmptyMap

\* for lang, bytes := range langData { languageStats[lang] += bytes }
Merge(stats, langData) ==
    [l \in DOMAIN stats \cup DOMAIN langData |->
        (IF l \in DOMAIN stats THEN stats[l] ELSE 0)
      + (IF l \in DOMAIN langData THEN langData[l] ELSE 0)]

RetryOnce(i) ==
    IF Len(SelectSeq(calls, LAMBDA c : c = i)) >= 2 THEN i + 1 ELSE i

\* The repository the loop turns to after a failed fetch: continue.
AfterFailure(i) == i + 1

\* var totalBytes; for _, bytes := range languageStats { totalBytes += bytes }
RECURSIVE SumOf(_, _)
SumOf(stats, keys) ==
    IF keys = {} THEN 0
    ELSE LET l == CHOOSE k \in keys : TRUE
         IN  stats[l] + SumOf(stats, keys \ {l})

TotalBytes(stats) == SumOf(stats, DOMAIN stats)

NoLanguageDataUnchecked(totalBytes) == FALSE

\* totalBytes == 0
NoLanguageData(totalBytes) == totalBytes = 0

\* The orders in which range may visit the keys of a map: any.
RECURSIVE RangeOrders(_)
RangeOrders(keys) ==
    IF keys = {} THEN {<<>>}
    ELSE UNION {{<<l>> \o o : o \in RangeOrders(keys \ {l})} : l \in keys}

EmitsNonZeroOnly(bytes) == bytes # 0

\* The loop appends a record for every key it visits.
Emits(bytes) == TRUE

\* var result; for lang, bytes := range languageStats { append(...) }
RECURSIVE BuildResult(_, _, _)
BuildResult(stats, totalBytes, order) ==
    IF order = <<>> THEN <<>>
    ELSE LET lang == Head(order)
             rest == BuildResult(stats, totalBytes, Tail(order))
         IN  IF Emits(stats[lang])
             THEN <<[Language |-> lang,
                     Percent  |-> PercentOf(stats[lang], totalBytes),
                     Bytes    |-> stats[lang]]>> \o rest
             ELSE rest

LessAscending(x, y) == x.Percent < y.Percent

\* func(i, j int) bool { return result[i].Percent > result[j].Percent }
Less(x, y) == x.Percent > y.Percent

Swap(s, i, j) == [s EXCEPT ![i] = s[j], ![j] = s[i]]

\* sort.Slice on fewer than 12 elements is an insertion sort:
\*   for i := a + 1; i < b; i++ {
\*     for j := i; j > a && less(j, j-1); j-- { swap(j, j-1) } }
RECURSIVE SinkDown(_, _)
SinkDown(s, j) ==
    IF j > 1 /\ Less(s[j], s[j - 1]) THEN SinkDown(Swap(s, j, j - 1), j - 1)
    ELSE s

RECURSIVE InsertionSort(_, _)
InsertionSort(s, i) ==
    IF i > Len(s) THEN s ELSE InsertionSort(SinkDown(s, i), i + 1)

SortSlice(s) == InsertionSort(s, 2)

\* Lines 115-138 for one order of the range over languageStats.
Rank(stats, order) ==
    LET built == {BuildResult(stats, t, order) : t \in {TotalBytes(stats)}}
    IN  CHOOSE sorted \in {SortSlice(r) : r \in built} : TRUE

\* -------------------------------------------------------------- actions

Init ==
    /\ pc = "start"
    /\ listingStatus = "none"
    /\ repos = <<>>
    /\ idx = 1
    /\ outcomes = <<>>
    /\ calls = <<>>
    /\ languageStats = EmptyMap
    /\ result = <<>>
    /\ err = "none"

\* Line 78: fetchGitHubData(reposURL) is called; call 0 is the listing.
CallFetchRepos ==
    /\ pc = "start"
    /\ pc' = "awaitRepos"
    /\ calls' = Append(calls, 0)
    /\ UNCHANGED <<listingStatus, repos, idx, outcomes, languageStats, result, err>>

ReposFailed ==
    /\ pc' = "done"
    /\ listingStatus' = "failed"
    /\ err' = "fetchRepos"
    /\ UNCHANGED <<repos, idx, outcomes, calls, languageStats, result>>

\* Lines 79-81: the fetch of the listing returns an error.
ReposFetchFails ==
    /\ pc = "awaitRepos"
    /\ \E kind \in FetchErrorKinds : ReposFailed

\* Line 46: the client's timeout ends a listing request that got no answer.
ReposFetchTimeout ==
    /\ pc = "awaitRepos"
    /\ ReposFailed

\* Lines 83-90: the listing arrives with status 200 and is decoded.
ReposArrive ==
    /\ pc = "awaitRepos"
    /\ \E body \in ListingBodies :
          /\ listingStatus' = (IF body.ok THEN "parsed" ELSE "unparsable")
          /\ repos' = body.repos
          /\ IF ListingParseFails(body)
             THEN pc' = "done" /\ err' = "parseRepos"
             ELSE IF NoRepositories(body.repos)
             THEN pc' = "done" /\ err' = "noRepos"
             ELSE pc' = "loop" /\ err' = err
    /\ UNCHANGED <<idx, outcomes, calls, languageStats, result>>

\* Lines 94-96: a repository without languages_url is passed over.
SkipRepo ==
    /\ pc = "loop"
    /\ idx <= Len(repos)
    /\ repos[idx].LanguagesURL = ""
    /\ outcomes' = Append(outcomes, [kind |-> "noURL", data |-> EmptyMap])
    /\ idx' = idx + 1
    /\ UNCHANGED <<pc, listingStatus, repos, calls, languageStats, result, err>>

\* Line 98: fetchGitHubData(repo.LanguagesURL) is called.
CallFetchLanguages ==
    /\ pc = "loop"
    /\ idx <= Len(repos)
    /\ repos[idx].LanguagesURL # ""
    /\ pc' = "awaitLangs"
    /\ calls' = Append(calls, idx)
    /\ UNCHANGED <<listingStatus, repos, idx, outcomes, languageStats, result, err>>

LanguagesFailed ==
    /\ pc' = "loop"
    /\ outcomes' = Append(outcomes, [kind |-> "fetchFailed", data |-> EmptyMap])
    /\ idx' = AfterFailure(idx)
    /\ UNCHANGED <<listingStatus, repos, calls, languageStats, result, err>>

\* Lines 99-102: the fetch of a breakdown returns an error; logged, continue.
LanguagesFetchFails ==
    /\ pc = "awaitLangs"
    /\ \E kind \in FetchErrorKinds : LanguagesFailed

\* Line 46: the client's timeout ends a breakdown request that got no answer.
LanguagesFetchTimeout ==
    /\ pc = "awaitLangs"
    /\ LanguagesFailed

\* Lines 104-112: a breakdown arrives with status 200, is decoded and merged.
LanguagesArrive ==
    /\ pc = "awaitLangs"
    /\ \E body \in LangBodies :
          /\ outcomes' = Append(outcomes,
                [kind |-> (IF body.ok THEN "ok" ELSE "parseFailed"),
                 data |-> body.data])
          /\ languageStats' = Merge(languageStats, Contribution(body))
    /\ idx' = idx + 1
    /\ pc' = "loop"
    /\ UNCHANGED <<listingStatus, repos, calls, result, err>>

\* Lines 115-138: after the loop, the total, the error for a zero total, or
\* the records built in the map's iteration order, sorted and returned.
Normalize ==
    /\ pc = "loop"
    /\ idx > Len(repos)
    /\ pc' = "done"
    /\ IF NoLanguageData(TotalBytes(languageStats))
       THEN err' = "noLanguageData" /\ result' = result
       ELSE /\ err' = err
            /\ \E order \in RangeOrders(DOMAIN languageStats) :
                  result' = Rank(languageStats, order)
    /\ UNCHANGED <<listingStatus, repos, idx, outcomes, calls, languageStats>>

Next ==
    \/ CallFetchRepos
    \/ ReposFetchFails
    \/ ReposFetchTimeout
    \/ ReposArrive
    \/ SkipRepo
    \/ CallFetchLanguages
    \/ LanguagesFetchFails
    \/ LanguagesFetchTimeout
    \/ LanguagesArrive
    \/ Normalize

Spec == Init /\ [][Next]_vars

\* The goroutine running getLanguageStats keeps taking its own steps, and a
\* request still unanswered is ended by the client's timeout; nothing is
\* assumed about the upstream ever answering.
LiveSpec ==
    /\ Spec
    /\ WF_vars(CallFetchRepos \/ SkipRepo \/ CallFetchLanguages \/ Normalize)
    /\ WF_vars(ReposFetchTimeout \/ LanguagesFetchTimeout)

\* ------------------------------------------------- the normaliser alone

NormByteVals == (0..MaxBytes) \cup {23, 137}

\* A run whose loop has just ended: one repository, whose breakdown was
\* fetched, decoded and merged into the empty map.
InitNorm ==
    /\ pc = "loop"
    /\ listingStatus = "parsed"
    /\ repos = <<[LanguagesURL |-> "url"]>>
    /\ idx = 2
    /\ calls = <<0, 1>>
    /\ \E m \in MapsOver(Langs, NormByteVals) :
          /\ outcomes = <<[kind |-> "ok", data |-> m]>>
          /\ languageStats = Merge(EmptyMap, m)
    /\ result = <<>>
    /\ err = "none"

NextNorm == Normalize

NormSpec == InitNorm /\ [][NextNorm]_vars

\* ---------------------------------------------------------------- claims

Done == pc = "done"

Succeeded == pc = "done" /\ err = "none"

\* The loop was entered: the listing was decoded and is not empty.
LoopRan == pc = "done" /\ listingStatus = "parsed" /\ repos # <<>>

Count(s, x) == Len(SelectSeq(s, LAMBDA c : c = x))

OkAt(i) == outcomes[i].kind = "ok"

FailedAt(i) == outcomes[i].kind \in {"fetchFailed", "parseFailed"}

\* The bytes of language l in the breakdowns fetched and decoded among the
\* first n repositories.
RECURSIVE SumOk(_, _)
SumOk(l, n) ==
    IF n = 0 THEN 0
    ELSE SumOk(l, n - 1)
         + (IF OkAt(n) /\ l \in DOMAIN outcomes[n].data
            THEN outcomes[n].data[l] ELSE 0)

KeysOk == UNION {DOMAIN outcomes[i].data : i \in {j \in 1..Len(outcomes) : OkAt(j)}}

RECURSIVE SumKeys(_)
SumKeys(keys) ==
    IF keys = {} THEN 0
    ELSE LET l == CHOOSE k \in keys : TRUE
         IN  SumOk(l, Len(outcomes)) + SumKeys(keys \ {l})

BytesOk(l) == SumOk(l, Len(outcomes))

TotalOk == SumKeys(KeysOk)

\* The breakdowns of the repositories that were fetched and decoded, in order.
RECURSIVE OkBreakdowns(_)
OkBreakdowns(n) ==
    IF n = 0 THEN <<>>
    ELSE IF OkAt(n) THEN Append(OkBreakdowns(n - 1), outcomes[n].data)
    ELSE OkBreakdowns(n - 1)

\* The merged map of a run over a list of repositories that all answer.
RECURSIVE MergeAll(_)
MergeAll(datas) ==
    IF datas = <<>> THEN EmptyMap
    ELSE Merge(MergeAll(SubSeq(datas, 1, Len(datas) - 1)), datas[Len(datas)])

RecordsOf(l) == {i \in 1..Len(result) : result[i].Language = l}

OneRecordPerKey(keys) ==
    /\ Len(result) = Cardinality(keys)
    /\ \A l \in keys : Cardinality(RecordsOf(l)) = 1

\* p hundredths is 100 * b / t rounded to two decimals, halves away from zero.
ExactRound2(p, b, t) ==
    /\ 2 * p * t - 20000 * b <= t
    /\ 2 * p * t - 20000 * b > 0 - t

RECURSIVE PercentSum(_)
PercentSum(n) == IF n = 0 THEN 0 ELSE PercentSum(n - 1) + result[n].Percent

\* C1: when some repositories fail (fetch or parse) and at least one is
\* fetched and decoded with a non-empty breakdown, the run ends as the run
\* over the succeeded repositories alone ends: the same merged map, the same
\* error or success, a result that run can produce.
C1_PartialFailure ==
    (/\ LoopRan
     /\ \E i \in 1..Len(outcomes) : FailedAt(i)
     /\ \E i \in 1..Len(outcomes) : OkAt(i) /\ outcomes[i].data # EmptyMap)
    => LET m == MergeAll(OkBreakdowns(Len(outcomes)))
       IN  /\ languageStats = m
           /\ IF TotalBytes(m) = 0
              THEN err = "noLanguageData" /\ result = <<>>
              ELSE /\ err = "none"
                   /\ result \in {Rank(m, o) : o \in RangeOrders(DOMAIN m)}

C1_Witness ==
    /\ LoopRan
    /\ err = "none"
    /\ result # <<>>
    /\ \E i \in 1..Len(outcomes) :
          outcomes[i].kind = "parseFailed" /\ outcomes[i].data # EmptyMap
    /\ \E i \in 1..Len(outcomes) : OkAt(i) /\ outcomes[i].data # EmptyMap

\* C1, the other way to fail: the fetch of the first repository fails, the
\* second is fetched, decoded and ranked.
C1_WitnessFetch ==
    /\ LoopRan
    /\ err = "none"
    /\ Len(result) = 2
    /\ outcomes[1].kind = "fetchFailed"

\* C2: on success every key of the merged map has exactly one record, whose
\* bytes is the sum of the language's counts over the repositories fetched
\* and decoded, and whose percent is bytes / totalBytes * 100 rounded to two
\* decimals, halves away from zero.
C2_ExactPercent ==
    Succeeded =>
        /\ OneRecordPerKey(KeysOk)
        /\ \A i \in 1..Len(result) :
              /\ result[i].Bytes = BytesOk(result[i].Language)
              /\ ExactRound2(result[i].Percent, result[i].Bytes, TotalOk)

\* C3: on success the list is sorted by percent, non-increasing.
C3_Sorted ==
    Succeeded =>
        \A i \in 1..(Len(result) - 1) : result[i].Percent >= result[i + 1].Percent

C3_Witness ==
    /\ Succeeded
    /\ Len(result) = 3
    /\ result[1].Language = "Rust"
    /\ result[3].Language = "Go"
    /\ result[1].Percent > result[2].Percent
    /\ result[2].Percent > result[3].Percent

NameOrder(keys) == SelectSeq(LangOrder, LAMBDA l : l \in keys)

\* C4: the ordered output is a function of the merged map alone: whatever
\* order the map is ranged over, the list is the one got by ranging over it
\* in name order (so equal percents come out in name order, Go before Rust).
C4_Deterministic ==
    Succeeded => result = Rank(languageStats, NameOrder(DOMAIN languageStats))

\* C5: a listing decoded to zero repositories ends the run with the
\* no-repositories error, no result and no fetch of any breakdown.
C5_NoRepositories ==
    (listingStatus = "parsed" /\ repos = <<>>)
    => /\ pc = "done"
       /\ err = "noRepos"
       /\ result = <<>>
       /\ calls = <<0>>

C5_Witness == pc = "done" /\ listingStatus = "parsed" /\ repos = <<>>

NothingUsable(i) ==
    \/ outcomes[i].kind \in {"noURL", "fetchFailed", "parseFailed"}
    \/ outcomes[i].kind = "ok" /\ outcomes[i].data = EmptyMap

\* C6: a non-empty listing whose repositories all lack a locator, fail to
\* fetch, fail to parse or have an empty breakdown ends the run with the
\* no-language-data error and no result.
C6_AllFail ==
    (LoopRan /\ \A i \in 1..Len(outcomes) : NothingUsable(i))
    => err = "noLanguageData" /\ result = <<>>

C6_Witness ==
    /\ LoopRan
    /\ Len(outcomes) = Len(repos)
    /\ \A i \in 1..Len(outcomes) : NothingUsable(i)
    /\ \E i \in 1..Len(outcomes) : outcomes[i].kind = "fetchFailed"
    /\ \E i \in 1..Len(outcomes) : outcomes[i].kind = "ok"

\* C7 as stated: the no-language-data error only if the merged map is empty;
\* a merged map with a key gives success with one record per key.
C7_OnlyIfEmpty ==
    LoopRan =>
        /\ err = "noLanguageData" => DOMAIN languageStats = {}
        /\ DOMAIN languageStats # {} =>
              err = "none" /\ OneRecordPerKey(DOMAIN languageStats)

\* C7 as amended: the no-language-data error exactly if the merged byte
\* counts sum to zero (the empty map included); a non-zero sum gives success
\* with one record per key.
C7_OnlyIfZeroTotal ==
    LoopRan =>
        /\ err = "noLanguageData" <=> TotalOk = 0
        /\ TotalOk # 0 => err = "none" /\ OneRecordPerKey(DOMAIN languageStats)

C7_Witness ==
    /\ LoopRan
    /\ err = "noLanguageData"
    /\ DOMAIN languageStats # {}

\* C8: on success every percent lies in [0, 100] and the percents sum to
\* within 0.01 * N of 100, N the number of languages.
C8_PercentSum ==
    Succeeded =>
        LET n == Cardinality(DOMAIN languageStats)
        IN  /\ \A i \in 1..Len(result) :
                  result[i].Percent >= 0 /\ result[i].Percent <= 10000
            /\ PercentSum(Len(result)) >= 10000 - n
            /\ PercentSum(Len(result)) <= 10000 + n

C8_Witness ==
    /\ Succeeded
    /\ Len(result) = 3
    /\ PercentSum(Len(result)) = 9999

\* C9: a listing that cannot be fetched or decoded ends the run at once with
\* that error: no breakdown is fetched, nothing is skipped over, no result.
C9_ListingFailure ==
    (listingStatus \in {"failed", "unparsable"})
    => /\ pc = "done"
       /\ err = (IF listingStatus = "failed" THEN "fetchRepos" ELSE "parseRepos")
       /\ result = <<>>
       /\ calls = <<0>>
       /\ outcomes = <<>>

C9_Witness ==
    /\ pc = "done"
    /\ listingStatus = "unparsable"
    /\ \E i \in 1..Len(repos) : repos[i].LanguagesURL # ""

\* The fetcher is called once for the listing, at most once for a repository
\* and never for one without a locator; a run that got past the listing has
\* processed every repository, those after a failed one included.
CallDiscipline ==
    /\ Count(calls, 0) = (IF pc = "start" THEN 0 ELSE 1)
    /\ \A k \in 1..Len(calls) :
          calls[k] # 0 =>
              /\ calls[k] <= Len(repos)
              /\ repos[calls[k]].LanguagesURL # ""
              /\ Count(calls, calls[k]) = 1
    /\ (pc = "done" /\ err \in {"none", "noLanguageData"}) =>
          /\ Len(outcomes) = Len(repos)
          /\ \A i \in 1..Len(repos) :
                Count(calls, i) = (IF repos[i].LanguagesURL = "" THEN 0 ELSE 1)

\* C10: every run ends, with a result or an error, whatever the upstream
\* does, and keeps the call discipline throughout.
C10_Terminates == <>(pc = "done") /\ []CallDiscipline

C10_Witness ==
    /\ pc = "done"
    /\ Len(outcomes) = 2
    /\ outcomes[1].kind = "fetchFailed"
    /\ outcomes[2].kind = "ok"
    /\ calls = <<0, 1, 2>>

====
